---- MODULE Spec2Model ----
(***************************************************************************)
(* A model of the LoadMostRecentImage node (load_most_recent_image.py):    *)
(* the three entry points load_most_recent_image, VALIDATE_INPUTS and      *)
(* IS_CHANGED, run against one image folder that other processes add       *)
(* files to, touch and delete files from.                                  *)
(*                                                                         *)
(* Strings the code manipulates (extension lists, file names) are          *)
(* sequences of one-character strings, so that split, strip, lower, upper  *)
(* and the glob suffix match are computed, not assumed.                    *)
(***************************************************************************)
EXTENDS Integers, Sequences, FiniteSets, TLC

VARIABLES
    dir,          \* the image folder: file name -> Absent or [mtime, content]
    listing,      \* the order in which os.listdir gives the folder's entries
    pc,           \* position of the caller
    call,         \* the entry point running (or last run) and its arguments
    image_files,  \* the local list image_files of a call between glob and sort
    result,       \* what the last completed call returned or raised
    prev,         \* the result of the IS_CHANGED call before the last one
    since,        \* the folder modification made since the last IS_CHANGED call
    img,          \* the PIL image handed to the decode step
    out,          \* the (image, mask) pair the decode step produced
    last,         \* the call that gave prev
    seen          \* the folder as the running call's enumeration found it

vars ==
    <<dir, listing, pc, call, image_files, result, prev, since, img, out,
      last, seen>>

----------------------------------------------------------------------------
(* Bounds *)

MaxTime == 3      \* modification times are 1..MaxTime
MaxIndex == 3     \* the index argument ranges over -2..MaxIndex
MaxWidth == 2     \* images are 1..MaxWidth pixels wide
MaxHeight == 1    \* and 1..MaxHeight pixels high

----------------------------------------------------------------------------
(* Character strings *)

LowerLetters ==
    <<"a","b","c","d","e","f","g","h","i","j","k","l","m",
      "n","o","p","q","r","s","t","u","v","w","x","y","z">>
UpperLetters ==
    <<"A","B","C","D","E","F","G","H","I","J","K","L","M",
      "N","O","P","Q","R","S","T","U","V","W","X","Y","Z">>

LowerChar(c) ==
    IF \E i \in 1..Len(UpperLetters) : UpperLetters[i] = c
    THEN LowerLetters[CHOOSE i \in 1..Len(UpperLetters) : UpperLetters[i] = c]
    ELSE c

UpperChar(c) ==
    IF \E i \in 1..Len(LowerLetters) : LowerLetters[i] = c
    THEN UpperLetters[CHOOSE i \in 1..Len(LowerLetters) : LowerLetters[i] = c]
    ELSE c

\* str.lower() and str.upper()
Lower(s) == [i \in 1..Len(s) |-> LowerChar(s[i])]
Upper(s) == [i \in 1..Len(s) |-> UpperChar(s[i])]

Whitespace == {" ", "\t"}

\* str.strip()
RECURSIVE LStrip(_)
LStrip(s) ==
    IF s # <<>> /\ Head(s) \in Whitespace THEN LStrip(Tail(s)) ELSE s

RECURSIVE RStrip(_)
RStrip(s) ==
    IF s # <<>> /\ s[Len(s)] \in Whitespace
    THEN RStrip(SubSeq(s, 1, Len(s) - 1))
    ELSE s

Strip(s) == RStrip(LStrip(s))

\* str.split(","): the pieces between the separators, empty pieces kept
RECURSIVE SplitFrom(_, _, _)
SplitFrom(s, i, piece) ==
    IF i > Len(s) THEN <<piece>>
    ELSE IF s[i] = "," THEN <<piece>> \o SplitFrom(s, i + 1, <<>>)
    ELSE SplitFrom(s, i + 1, Append(piece, s[i]))

Split(s) == SplitFrom(s, 1, <<>>)

StartsWith(s, p) == Len(p) <= Len(s) /\ SubSeq(s, 1, Len(p)) = p
EndsWith(s, p) ==
    Len(p) <= Len(s) /\ SubSeq(s, Len(s) - Len(p) + 1, Len(s)) = p

----------------------------------------------------------------------------
(* The file system *)

\* The folder_path arguments tried: the empty string, a path that does not
\* exist, a path that is a regular file, and the image folder.
EmptyPath == ""
MissingPath == "/non/existent/directory"
FilePath == "/tmp/notes.txt"
FolderPath == "/tmp/images"

\* os.path.exists and os.path.isdir
PathExists(p) == p \in {FilePath, FolderPath}
PathIsDir(p) == p = FolderPath

\* The file names of the image folder: two with the same lower-case
\* extension, and one whose extension is the same in lower and upper case.
NameA == <<"a", ".", "p">>
NameB == <<"b", ".", "p">>
NameC == <<"c", ".", "7">>
Names == {NameA, NameB, NameC}
NoFile == <<>>

\* What PIL makes of a file: the format it detects, or BAD when the file
\* does not decode.
Contents == {"PNG", "ICO", "BAD"}
SupportedFormats == {"JPEG", "PNG", "BMP", "TIFF", "WEBP", "GIF"}

Times == 1..MaxTime
Absent == [mtime |-> 0, content |-> "absent"]
FileStates == [mtime : Times, content : Contents]
Present(d, f) == d[f] # Absent

\* os.listdir gives the entries in an order of its own choosing, the same
\* from call to call while nobody changes the folder. Only the
\* relative order of two names that match the same pattern shows in
\* image_files, so these two orders give every list the enumeration can build.
ListingOrders == {<<NameA, NameB, NameC>>, <<NameC, NameB, NameA>>}

----------------------------------------------------------------------------
(* Arguments *)

DefaultExtensions ==
    <<"j","p","g",",","j","p","e","g",",","p","n","g",",","b","m","p",",",
      "t","i","f","f",",","t","i","f",",","w","e","b","p">>
ExtP == <<"p">>
ExtP7 == <<"p", ",", "7">>
ExtPP == <<"p", ",", "p">>
ExtensionLists == {ExtP, ExtP7, ExtPP}

\* INPUT_TYPES declares index >= 0, but nothing in the three entry points
\* keeps a caller from passing a negative one: -1 and -2 are tried too
Indices == {-2, -1} \cup 0..MaxIndex

Request(p, e, i) == [folder_path |-> p, image_extensions |-> e, index |-> i]

\* The argument triples tried: every short extension list and every index
\* against the image folder, and the default extension list (which matches
\* none of the three names) against every path.
Requests ==
    {Request(FolderPath, e, i) : e \in ExtensionLists, i \in Indices}
    \cup {Request(p, DefaultExtensions, i) :
            p \in {EmptyPath, MissingPath, FilePath, FolderPath}, i \in {-1, 0}}

----------------------------------------------------------------------------
(* Extension parsing and file enumeration *)

DotPrefixMissing(ext) == IF StartsWith(ext, <<".">>) THEN ext ELSE <<".">> \o ext

\* Extensions without the lower-casing of the tokens
ExtensionsNotLowered(image_extensions) ==
    LET tokens == Split(image_extensions)
    IN  [i \in 1..Len(tokens) |-> DotPrefixMissing(Strip(tokens[i]))]

\* extensions = [ext.strip().lower() ...]; then the leading '.' is added
Extensions(image_extensions) ==
    LET tokens == Split(image_extensions)
    IN  [i \in 1..Len(tokens) |-> DotPrefixMissing(Lower(Strip(tokens[i])))]

\* fnmatch of a name against "*" + suffix; glob skips hidden entries for a
\* pattern that does not itself begin with a dot
FnMatch(name, suffix) == EndsWith(name, suffix) /\ Head(name) # "."

RECURSIVE SelectSeqBy(_, _, _, _)
SelectSeqBy(order, i, d, suffix) ==
    IF i > Len(order) THEN <<>>
    ELSE (IF Present(d, order[i]) /\ FnMatch(order[i], suffix)
          THEN <<order[i]>> ELSE <<>>)
         \o SelectSeqBy(order, i + 1, d, suffix)

\* glob.glob(os.path.join(folder_path, "*" + suffix))
Glob(folder_path, suffix, d, order) ==
    IF PathIsDir(folder_path) THEN SelectSeqBy(order, 1, d, suffix) ELSE <<>>

\* One round of the enumeration loop: the pattern as given, then upper-cased
GlobBothCases(folder_path, ext, d, order) ==
    Glob(folder_path, ext, d, order) \o Glob(folder_path, Upper(ext), d, order)

RECURSIVE FindFrom(_, _, _, _, _)
FindFrom(folder_path, extensions, i, d, order) ==
    IF i > Len(extensions) THEN <<>>
    ELSE GlobBothCases(folder_path, extensions[i], d, order)
         \o FindFrom(folder_path, extensions, i + 1, d, order)

\* image_files after the loop over the extensions
FindImageFiles(folder_path, image_extensions, d, order) ==
    FindFrom(folder_path, Extensions(image_extensions), 1, d, order)

----------------------------------------------------------------------------
(* Sorting by modification time *)

\* Insert f into a list sorted by descending mtime, after every entry whose
\* mtime is not smaller: the sort is stable, also with reverse=True.
RECURSIVE InsertByMtime(_, _, _)
InsertByMtime(sorted, f, d) ==
    IF sorted = <<>> THEN <<f>>
    ELSE IF d[Head(sorted)].mtime >= d[f].mtime
         THEN <<Head(sorted)>> \o InsertByMtime(Tail(sorted), f, d)
         ELSE <<f>> \o sorted

RECURSIVE SortFrom(_, _, _)
SortFrom(files, i, d) ==
    IF i = 0 THEN <<>>
    ELSE InsertByMtime(SortFrom(files, i - 1, d), files[i], d)

\* image_files.sort(key=os.path.getmtime, reverse=True)
SortByMtime(files, d) == SortFrom(files, Len(files), d)

\* os.path.getmtime raises for a file that is no longer there
GetmtimeRaises(files, d) == \E i \in 1..Len(files) : ~Present(d, files[i])

\* image_files[index], with Python's negative indices
IndexRaises(files, index) == index >= Len(files) \/ index < 0 - Len(files)
PyIndex(files, index) ==
    IF index >= 0 THEN files[index + 1] ELSE files[Len(files) + index + 1]

----------------------------------------------------------------------------
(* Results and messages *)

\* A message is the f-string that builds it with the values it interpolates.
Message(fmt, path, index, count, file, inner, format) ==
    [fmt |-> fmt, path |-> path, index |-> index, count |-> count,
     file |-> file, inner |-> inner, format |-> format]

NoMessage == Message("", "", 0, 0, NoFile, <<>>, "")

MsgEmptyPath == Message("Folder path cannot be empty", "", 0, 0, NoFile, <<>>, "")
MsgNotFound(p) ==
    Message("Folder path does not exist: {folder_path}", p, 0, 0, NoFile, <<>>, "")
MsgNotDir(p) ==
    Message("Path is not a directory: {folder_path}", p, 0, 0, NoFile, <<>>, "")
MsgNegative(i) ==
    Message("Index must be non-negative, got: {index}", "", i, 0, NoFile, <<>>, "")
MsgNoMatch(p) ==
    Message("No image files found in folder: {folder_path}", p, 0, 0, NoFile, <<>>, "")
MsgOutOfRange(i, n) ==
    Message("Index {index} is out of range. Only {len(image_files)} image(s) found in folder.",
            "", i, n, NoFile, <<>>, "")

\* str(e) of what Image.open / img.load raise
DecodeError(c) ==
    IF c = "absent" THEN "[Errno 2] No such file or directory"
    ELSE "cannot identify image file"

\* _validate_image_file: None, or the message of the ValueError it raises
InvalidImageFile(c) ==
    IF c \in {"absent", "BAD"}
    THEN <<"Invalid image file: {basename} - {e}", DecodeError(c)>>
    ELSE IF c \notin SupportedFormats
    THEN <<"Invalid image file: {basename} - {e}",
           "Unsupported image format: {img.format}">>
    ELSE <<>>

MsgLoadError(f, c) ==
    Message("Error loading image {selected_file}: {e}", "", 0, 0, f,
            InvalidImageFile(c),
            IF c \in {"absent", "BAD"} THEN "" ELSE c)
MsgUnsupported(c) ==
    Message("Unsupported image format: {img.format}", "", 0, 0, NoFile, <<>>, c)
MsgValidateError(i, c) ==
    Message("Error validating image at index {index}: {e}", "", i, 0, NoFile,
            <<DecodeError(c)>>, "")

\* The float a call returns: NaN, or a timestamp
NaN == [nan |-> TRUE, t |-> 0]
Timestamp(t) == [nan |-> FALSE, t |-> t]
\* a == b on floats: NaN equals nothing, itself included
FloatEq(a, b) == ~a.nan /\ ~b.nan /\ a.t = b.t

NoResult ==
    [kind |-> "none", exc |-> "", value |-> "", file |-> NoFile,
     msg |-> NoMessage, tok |-> NaN]
Raised(exc, msg) ==
    [kind |-> "raised", exc |-> exc, value |-> "", file |-> NoFile,
     msg |-> msg, tok |-> NaN]
ReturnedImage(f) ==
    [kind |-> "returned", exc |-> "", value |-> "image", file |-> f,
     msg |-> NoMessage, tok |-> NaN]
ReturnedTrue ==
    [kind |-> "returned", exc |-> "", value |-> "True", file |-> NoFile,
     msg |-> NoMessage, tok |-> NaN]
ReturnedStr(msg) ==
    [kind |-> "returned", exc |-> "", value |-> "str", file |-> NoFile,
     msg |-> msg, tok |-> NaN]
ReturnedFloat(x, f) ==
    [kind |-> "returned", exc |-> "", value |-> "float", file |-> f,
     msg |-> NoMessage, tok |-> x]

----------------------------------------------------------------------------
(* load_most_recent_image *)

\* LoadFromFiles with the index check made before the emptiness check
LoadFromFilesIndexFirst(req, files, d) ==
    LET index == req.index
        sorted == SortByMtime(files, d)
        selected == PyIndex(sorted, index)
        c == d[selected].content
    IN  IF index >= Len(files)
        THEN Raised("ValueError", MsgOutOfRange(index, Len(files)))
        ELSE IF files = <<>> THEN Raised("ValueError", MsgNoMatch(req.folder_path))
        ELSE IF GetmtimeRaises(files, d)
        THEN Raised("FileNotFoundError", NoMessage)
        ELSE IF IndexRaises(sorted, index) THEN Raised("IndexError", NoMessage)
        ELSE IF InvalidImageFile(c) # <<>>
        THEN Raised("ValueError", MsgLoadError(selected, c))
        ELSE ReturnedImage(selected)

\* Lines 82-136, on the list the enumeration gave and the folder as the
\* sort and the decode find it.
LoadFromFiles(req, files, d) ==
    LET index == req.index
        sorted == SortByMtime(files, d)
        selected == PyIndex(sorted, index)
        c == d[selected].content
    IN  IF files = <<>> THEN Raised("ValueError", MsgNoMatch(req.folder_path))
        ELSE IF GetmtimeRaises(files, d)
        THEN Raised("FileNotFoundError", NoMessage)
        ELSE IF index >= Len(sorted)
        THEN Raised("ValueError", MsgOutOfRange(index, Len(sorted)))
        ELSE IF IndexRaises(sorted, index) THEN Raised("IndexError", NoMessage)
        ELSE IF InvalidImageFile(c) # <<>>
        THEN Raised("ValueError", MsgLoadError(selected, c))
        ELSE ReturnedImage(selected)

LoadMostRecentImage(req, d, order) ==
    IF req.folder_path = EmptyPath \/ ~PathExists(req.folder_path)
    THEN Raised("ValueError", MsgNotFound(req.folder_path))
    ELSE IF ~PathIsDir(req.folder_path)
    THEN Raised("ValueError", MsgNotDir(req.folder_path))
    ELSE LoadFromFiles(req,
            FindImageFiles(req.folder_path, req.image_extensions, d, order), d)

----------------------------------------------------------------------------
(* VALIDATE_INPUTS *)

\* ValidateEarly with the index range checked before the emptiness of the list
ValidateEarlyIndexFirst(req, files) ==
    IF req.folder_path = EmptyPath THEN ReturnedStr(MsgEmptyPath)
    ELSE IF ~PathExists(req.folder_path)
    THEN ReturnedStr(MsgNotFound(req.folder_path))
    ELSE IF ~PathIsDir(req.folder_path)
    THEN ReturnedStr(MsgNotDir(req.folder_path))
    ELSE IF req.index < 0 THEN ReturnedStr(MsgNegative(req.index))
    ELSE IF req.index >= Len(files)
    THEN ReturnedStr(MsgOutOfRange(req.index, Len(files)))
    ELSE IF files = <<>> THEN ReturnedStr(MsgNoMatch(req.folder_path))
    ELSE NoResult

\* Lines 159-193: the checks made before and right after the enumeration;
\* NoResult when the call goes on to the sort.
ValidateEarly(req, files) ==
    IF req.folder_path = EmptyPath THEN ReturnedStr(MsgEmptyPath)
    ELSE IF ~PathExists(req.folder_path)
    THEN ReturnedStr(MsgNotFound(req.folder_path))
    ELSE IF ~PathIsDir(req.folder_path)
    THEN ReturnedStr(MsgNotDir(req.folder_path))
    ELSE IF req.index < 0 THEN ReturnedStr(MsgNegative(req.index))
    ELSE IF files = <<>> THEN ReturnedStr(MsgNoMatch(req.folder_path))
    ELSE IF req.index >= Len(files)
    THEN ReturnedStr(MsgOutOfRange(req.index, Len(files)))
    ELSE NoResult

\* Lines 195-211: the sort, outside the try block, then the guarded decode
ValidateFromFiles(req, files, d) ==
    LET sorted == SortByMtime(files, d)
        selected == PyIndex(sorted, req.index)
        c == d[selected].content
    IN  IF GetmtimeRaises(files, d) THEN Raised("FileNotFoundError", NoMessage)
        ELSE IF c \in {"absent", "BAD"}
        THEN ReturnedStr(MsgValidateError(req.index, c))
        ELSE IF c \notin SupportedFormats THEN ReturnedStr(MsgUnsupported(c))
        ELSE ReturnedTrue

ValidateInputs(req, d, order) ==
    LET files == FindImageFiles(req.folder_path, req.image_extensions, d, order)
        early == ValidateEarly(req, files)
    IN  IF early # NoResult THEN early ELSE ValidateFromFiles(req, files, d)

----------------------------------------------------------------------------
(* IS_CHANGED *)

\* IsChangedFromFiles returning 0.0 where the code returns NaN
IsChangedFromFilesZero(req, files, d) ==
    LET sorted == SortByMtime(files, d)
        selected == PyIndex(sorted, req.index)
    IN  IF files = <<>> THEN ReturnedFloat(Timestamp(0), NoFile)
        ELSE IF GetmtimeRaises(files, d) THEN ReturnedFloat(Timestamp(0), NoFile)
        ELSE IF req.index >= Len(sorted) THEN ReturnedFloat(Timestamp(0), NoFile)
        ELSE IF IndexRaises(sorted, req.index) THEN ReturnedFloat(Timestamp(0), NoFile)
        ELSE ReturnedFloat(Timestamp(d[selected].mtime), selected)

\* Lines 235-250: every exception inside the try block becomes NaN
IsChangedFromFiles(req, files, d) ==
    LET sorted == SortByMtime(files, d)
        selected == PyIndex(sorted, req.index)
    IN  IF files = <<>> THEN ReturnedFloat(NaN, NoFile)
        ELSE IF GetmtimeRaises(files, d) THEN ReturnedFloat(NaN, NoFile)
        ELSE IF req.index >= Len(sorted) THEN ReturnedFloat(NaN, NoFile)
        ELSE IF IndexRaises(sorted, req.index) THEN ReturnedFloat(NaN, NoFile)
        ELSE ReturnedFloat(Timestamp(d[selected].mtime), selected)

IsChanged(req, d, order) ==
    IF req.folder_path = EmptyPath \/ ~PathExists(req.folder_path)
    THEN ReturnedFloat(NaN, NoFile)
    ELSE IsChangedFromFiles(req,
            FindImageFiles(req.folder_path, req.image_extensions, d, order), d)

----------------------------------------------------------------------------
(* Images and their decoding, lines 103-133 *)

\* The largest 8-bit sample, the divisor of lines 108, 117 and 127
MaxSample == 255

\* A float is kept as an exact fraction
Rat(n, d) == [num |-> n, den |-> d]
\* x.astype(np.float32) of an integer sample
AsFloat(v) == Rat(v, 1)
\* x / 255.0
DivideBy(x, k) == Rat(x.num, x.den * k)
\* 1.0 - x
OneMinus(x) == Rat(x.den - x.num, x.den)
RatEq(x, y) == x.num * y.den = y.num * x.den

NoTransparency == [kind |-> "none", value |-> <<>>]
\* info['transparency'] of a PNG: a colour key (RGB, L), one transparent
\* palette index, or one alpha byte for each palette entry (P)
ColourKey(c) == [kind |-> "key", value |-> c]
PaletteIndex(i) == [kind |-> "index", value |-> <<i>>]
PaletteAlphas(a) == [kind |-> "bytes", value |-> a]

Palette == <<<<255, 0, 0>>, <<0, 255, 0>>, <<0, 0, 255>>>>

\* The kinds of image tried: mode, transparency marker, palette, and the
\* pixels an image of that kind is made of
ImageKinds ==
    { [mode |-> "RGBA", transparency |-> NoTransparency, palette |-> <<>>,
       pixels |-> {<<255, 0, 0, 0>>, <<0, 255, 0, 128>>, <<0, 0, 255, 255>>}],
      [mode |-> "RGB", transparency |-> NoTransparency, palette |-> <<>>,
       pixels |-> {<<255, 0, 0>>, <<0, 255, 0>>, <<0, 0, 255>>}],
      [mode |-> "RGB", transparency |-> ColourKey(<<255, 0, 0>>), palette |-> <<>>,
       pixels |-> {<<255, 0, 0>>, <<0, 255, 0>>, <<0, 0, 255>>}],
      [mode |-> "L", transparency |-> NoTransparency, palette |-> <<>>,
       pixels |-> {<<0>>, <<128>>, <<255>>}],
      [mode |-> "L", transparency |-> ColourKey(<<0>>), palette |-> <<>>,
       pixels |-> {<<0>>, <<128>>, <<255>>}],
      [mode |-> "LA", transparency |-> NoTransparency, palette |-> <<>>,
       pixels |-> {<<0, 0>>, <<128, 128>>, <<255, 255>>}],
      [mode |-> "P", transparency |-> NoTransparency, palette |-> Palette,
       pixels |-> {<<0>>, <<1>>, <<2>>}],
      [mode |-> "P", transparency |-> PaletteIndex(0), palette |-> Palette,
       pixels |-> {<<0>>, <<1>>, <<2>>}],
      [mode |-> "P", transparency |-> PaletteAlphas(<<0, 128>>), palette |-> Palette,
       pixels |-> {<<0>>, <<1>>, <<2>>}],
      [mode |-> "I", transparency |-> NoTransparency, palette |-> <<>>,
       pixels |-> {<<0>>, <<32640>>, <<65535>>}] }

MakeImage(kind, w, h, data) ==
    [mode |-> kind.mode, transparency |-> kind.transparency,
     palette |-> kind.palette, width |-> w, height |-> h, data |-> data]

\* data[y][x] is the pixel of row y and column x, a tuple of band samples
Images ==
    UNION { { MakeImage(kind, w, h, data) :
                data \in [1..h -> [1..w -> kind.pixels]] } :
            kind \in ImageKinds, w \in 1..MaxWidth, h \in 1..MaxHeight }

Clip8(v) == IF v <= 0 THEN 0 ELSE IF v >= MaxSample THEN MaxSample ELSE v

\* image.point(lambda i: i * (1 / 255)) on a mode I image: the scaled sample,
\* truncated to an integer
PointScaled(px) == <<px[1] \div MaxSample>>
Point(image) ==
    [image EXCEPT !.data = [y \in 1..image.height |->
                              [x \in 1..image.width |->
                                  PointScaled(image.data[y][x])]]]

\* 'transparency' in image.info
HasTransparency(image) == image.transparency.kind # "none"

\* The RGB samples convert() gives a pixel
PixelRGB(image, px) ==
    CASE image.mode \in {"RGB", "RGBA"} -> <<px[1], px[2], px[3]>>
      [] image.mode \in {"L", "LA"} -> <<px[1], px[1], px[1]>>
      [] image.mode = "P" -> image.palette[px[1] + 1]
      [] image.mode = "I" -> <<Clip8(px[1]), Clip8(px[1]), Clip8(px[1])>>

\* The alpha sample convert('RGBA') gives a pixel
PixelAlpha(image, px) ==
    LET t == image.transparency
    IN  CASE image.mode = "RGBA" -> px[4]
          [] image.mode = "LA" -> px[2]
          [] image.mode \notin {"RGBA", "LA"} /\ t.kind = "key"
                -> IF px = t.value THEN 0 ELSE MaxSample
          [] image.mode \notin {"RGBA", "LA"} /\ t.kind = "index"
                -> IF px[1] = t.value[1] THEN 0 ELSE MaxSample
          [] image.mode \notin {"RGBA", "LA"} /\ t.kind = "bytes"
                -> IF px[1] + 1 <= Len(t.value) THEN t.value[px[1] + 1] ELSE MaxSample
          [] OTHER -> MaxSample

\* image.convert('RGBA')
ConvertRGBA(image) ==
    [image EXCEPT
        !.mode = "RGBA",
        !.data = [y \in 1..image.height |->
                    [x \in 1..image.width |->
                        PixelRGB(image, image.data[y][x])
                            \o <<PixelAlpha(image, image.data[y][x])>>]]]

\* image.convert('RGB')
ConvertRGB(image) ==
    [image EXCEPT
        !.mode = "RGB",
        !.data = [y \in 1..image.height |->
                    [x \in 1..image.width |-> PixelRGB(image, image.data[y][x])]]]

\* The first band instead of the last
FirstBand(image) ==
    [y \in 1..image.height |->
        [x \in 1..image.width |-> image.data[y][x][1]]]

\* image.split()[-1]: the last band, as an array of height x width
LastBand(image) ==
    [y \in 1..image.height |->
        [x \in 1..image.width |-> image.data[y][x][Len(image.data[y][x])]]]

\* The mask without the inversion: alpha / 255.0
MaskNotInverted(alpha) ==
    [y \in 1..Len(alpha) |->
        [x \in 1..Len(alpha[y]) |-> DivideBy(AsFloat(alpha[y][x]), MaxSample)]]

\* mask = 1.0 - np.array(alpha).astype(np.float32) / 255.0
MaskOfAlpha(alpha) ==
    [y \in 1..Len(alpha) |->
        [x \in 1..Len(alpha[y]) |->
            OneMinus(DivideBy(AsFloat(alpha[y][x]), MaxSample))]]

\* An array of ones with the two dimensions exchanged
OnesTransposed(h, w) == [y \in 1..w |-> [x \in 1..h |-> Rat(1, 1)]]

\* np.ones((image.height, image.width), dtype=np.float32)
Ones(h, w) == [y \in 1..h |-> [x \in 1..w |-> Rat(1, 1)]]

\* np.array(image).astype(np.float32) / 255.0
ImageArray(image) ==
    [y \in 1..image.height |->
        [x \in 1..image.width |->
            [b \in 1..Len(image.data[y][x]) |->
                DivideBy(AsFloat(image.data[y][x][b]), MaxSample)]]]

\* Lines 105-133: from the opened image to (image_tensor, mask_tensor); the
\* leading batch dimension is the one-element tuple.
Decode(image) ==
    LET scaled == IF image.mode = "I" THEN Point(image) ELSE image
        promoted == IF HasTransparency(scaled) THEN ConvertRGBA(scaled) ELSE scaled
        rgb == ConvertRGB(promoted)
    IN  IF promoted.mode = "RGBA"
        THEN [image |-> <<ImageArray(rgb)>>,
              mask |-> <<MaskOfAlpha(LastBand(promoted))>>]
        ELSE [image |-> <<ImageArray(rgb)>>,
              mask |-> <<Ones(rgb.height, rgb.width)>>]

----------------------------------------------------------------------------
(* The state machine *)

NoCall == [op |-> "none", req |-> Request(EmptyPath, <<>>, 0)]
NoChange == [kind |-> "none", file |-> NoFile]
NoImage ==
    [mode |-> "none", transparency |-> NoTransparency, palette |-> <<>>,
     width |-> 0, height |-> 0, data |-> <<>>]
NoOutput == [image |-> <<>>, mask |-> <<>>]
NoSight == [dir |-> [f \in Names |-> Absent], listing |-> <<>>]

Init ==
    /\ dir = [f \in Names |-> Absent]
    /\ listing \in ListingOrders
    /\ pc = "idle"
    /\ call = NoCall
    /\ image_files = <<>>
    /\ result = NoResult
    /\ prev = NoResult
    /\ since = NoChange
    /\ img = NoImage
    /\ out = NoOutput
    /\ last = NoCall
    /\ seen = NoSight

\* Another process changes the folder: between calls, between two IS_CHANGED
\* calls ("first"), or while VALIDATE_INPUTS is between its enumeration and
\* its sort ("sorting").
Modify(newdir, change) ==
    /\ pc \in {"idle", "first", "sorting"}
    /\ dir' = newdir
    /\ listing' \in ListingOrders
    /\ pc' = CASE pc = "first" -> "changed"
               [] pc = "sorting" -> "raced"
               [] OTHER -> pc
    /\ since' = IF pc = "first" THEN change ELSE since
    /\ UNCHANGED <<call, image_files, result, prev, img, out, last, seen>>

AddFile(f, t, c) ==
    /\ ~Present(dir, f)
    /\ Modify([dir EXCEPT ![f] = [mtime |-> t, content |-> c]],
              [kind |-> "add", file |-> f])

TouchFile(f, t) ==
    /\ Present(dir, f)
    /\ dir[f].mtime # t
    /\ Modify([dir EXCEPT ![f].mtime = t], [kind |-> "touch", file |-> f])

DeleteFile(f) ==
    /\ Present(dir, f)
    /\ Modify([dir EXCEPT ![f] = Absent], [kind |-> "delete", file |-> f])

\* A whole call of load_most_recent_image
Load(req) ==
    /\ pc = "idle"
    /\ call' = [op |-> "load_most_recent_image", req |-> req]
    /\ result' = LoadMostRecentImage(req, dir, listing)
    /\ pc' = "done"
    /\ UNCHANGED <<dir, listing, image_files, prev, since, img, out, last,
                   seen>>

\* A whole call of VALIDATE_INPUTS
Validate(req) ==
    /\ pc = "idle"
    /\ call' = [op |-> "VALIDATE_INPUTS", req |-> req]
    /\ result' = ValidateInputs(req, dir, listing)
    /\ pc' = "done"
    /\ UNCHANGED <<dir, listing, image_files, prev, since, img, out, last,
                   seen>>

\* The caller takes the result
Return ==
    /\ pc \in {"done", "second"}
    /\ pc' = "idle"
    /\ call' = NoCall
    /\ result' = NoResult
    /\ prev' = NoResult
    /\ since' = NoChange
    /\ last' = NoCall
    /\ seen' = NoSight
    /\ UNCHANGED <<dir, listing, image_files, img, out>>

Next ==
    \/ \E f \in Names, t \in Times, c \in Contents : AddFile(f, t, c)
    \/ \E f \in Names, t \in Times : TouchFile(f, t)
    \/ \E f \in Names : DeleteFile(f)
    \/ \E req \in Requests : Load(req)
    \/ \E req \in Requests : Validate(req)
    \/ Return

Spec == Init /\ [][Next]_vars

----------------------------------------------------------------------------
(* IS_CHANGED, called twice by a caching host *)

\* A whole call of IS_CHANGED
IsChangedCall(req) ==
    /\ pc = "idle"
    /\ call' = [op |-> "IS_CHANGED", req |-> req]
    /\ result' = IsChanged(req, dir, listing)
    /\ pc' = "first"
    /\ UNCHANGED <<dir, listing, image_files, prev, since, img, out, last,
                   seen>>

\* The next call of IS_CHANGED with the same arguments
IsChangedAgain ==
    /\ pc \in {"first", "changed"}
    /\ prev' = result
    /\ last' = call
    /\ result' = IsChanged(call.req, dir, listing)
    /\ pc' = "second"
    /\ UNCHANGED <<dir, listing, call, image_files, since, img, out, seen>>

NextTok ==
    \/ \E f \in Names, t \in Times : AddFile(f, t, "PNG")
    \/ \E f \in Names, t \in Times : TouchFile(f, t)
    \/ \E f \in Names : DeleteFile(f)
    \/ \E req \in Requests : IsChangedCall(req)
    \/ IsChangedAgain
    \/ Return

SpecTok == Init /\ [][NextTok]_vars

----------------------------------------------------------------------------
(* VALIDATE_INPUTS, step by step, while another process changes the folder *)

\* Lines 159-193: up to the index check that follows the enumeration
ValidateEnumerate(req) ==
    LET files == FindImageFiles(req.folder_path, req.image_extensions, dir, listing)
        early == ValidateEarly(req, files)
    IN  /\ pc = "idle"
        /\ call' = [op |-> "VALIDATE_INPUTS", req |-> req]
        /\ IF early # NoResult
           THEN /\ result' = early
                /\ pc' = "done"
                /\ image_files' = <<>>
           ELSE /\ result' = NoResult
                /\ pc' = "sorting"
                /\ image_files' = files
        /\ UNCHANGED <<dir, listing, prev, since, img, out, last, seen>>

\* Lines 195-211: the sort and the decode, on the folder as it is now
ValidateSort ==
    /\ pc \in {"sorting", "raced"}
    /\ result' = ValidateFromFiles(call.req, image_files, dir)
    /\ pc' = "done"
    /\ image_files' = <<>>
    /\ UNCHANGED <<dir, listing, call, prev, since, img, out, last, seen>>

NextRace ==
    \/ \E f \in Names, t \in Times : AddFile(f, t, "PNG")
    \/ \E f \in Names, t \in Times : TouchFile(f, t)
    \/ \E f \in Names : DeleteFile(f)
    \/ \E req \in Requests : ValidateEnumerate(req)
    \/ ValidateSort
    \/ Return

SpecRace == Init /\ [][NextRace]_vars

----------------------------------------------------------------------------
(* The decoding of the selected file *)

\* Image.open(selected_file), line 103
OpenImage(image) ==
    /\ pc = "idle"
    /\ img' = image
    /\ out' = NoOutput
    /\ pc' = "opened"
    /\ UNCHANGED <<dir, listing, call, image_files, result, prev, since,
                   last, seen>>

\* Lines 105-133
DecodeImage ==
    /\ pc = "opened"
    /\ out' = Decode(img)
    /\ pc' = "decoded"
    /\ UNCHANGED <<dir, listing, call, image_files, result, prev, since, img,
                   last, seen>>

\* The caller takes the tensors
ReturnImage ==
    /\ pc = "decoded"
    /\ pc' = "idle"
    /\ img' = NoImage
    /\ out' = NoOutput
    /\ UNCHANGED <<dir, listing, call, image_files, result, prev, since,
                   last, seen>>

NextImg ==
    \/ \E image \in Images : OpenImage(image)
    \/ DecodeImage
    \/ ReturnImage

SpecImg == Init /\ [][NextImg]_vars

----------------------------------------------------------------------------
(* One call, then the same call with one extension token spelled otherwise *)

Operations == {"load_most_recent_image", "VALIDATE_INPUTS", "IS_CHANGED"}

\* What a whole call of an entry point gives
Outcome(op, req, d, order) ==
    CASE op = "load_most_recent_image" -> LoadMostRecentImage(req, d, order)
      [] op = "VALIDATE_INPUTS" -> ValidateInputs(req, d, order)
      [] op = "IS_CHANGED" -> IsChanged(req, d, order)

\* The whitespace tried before and after a token
PadsBefore == {<<>>, <<" ">>}
PadsAfter == {<<>>, <<"\t">>, <<" ", " ">>}

\* The spellings of a word in upper- and lower-case letters
CaseVariants(word) ==
    { [i \in 1..Len(word) |->
          IF i \in S THEN UpperChar(word[i]) ELSE LowerChar(word[i])] :
      S \in SUBSET (1..Len(word)) }

\* The word of a token: the token trimmed, without its leading '.'
Word(token) ==
    LET trimmed == Strip(token)
    IN  IF StartsWith(trimmed, <<".">>) THEN Tail(trimmed) ELSE trimmed

\* The spellings of a token: its word in any letter case, with or without
\* the leading '.', with or without whitespace around it
TokenVariants(token) ==
    { before \o dot \o word \o after :
        before \in PadsBefore, dot \in {<<>>, <<".">>},
        word \in CaseVariants(Word(token)), after \in PadsAfter }

\* ",".join(tokens)
RECURSIVE Join(_)
Join(tokens) ==
    IF Len(tokens) = 1 THEN tokens[1]
    ELSE tokens[1] \o <<",">> \o Join(Tail(tokens))

\* The extension lists that differ from image_extensions in the spelling of
\* one token
ListVariants(image_extensions) ==
    LET tokens == Split(image_extensions)
    IN  UNION { { Join([tokens EXCEPT ![i] = v]) :
                    v \in TokenVariants(tokens[i]) } :
                  i \in 1..Len(tokens) }
        \ {image_extensions}

\* The arguments of the first call
VariantRequests ==
    {Request(FolderPath, e, i) : e \in {ExtP, ExtP7}, i \in {-1, 0, 1}}

\* A whole call of one of the three entry points
CallWith(op, req) ==
    /\ pc = "idle"
    /\ call' = [op |-> op, req |-> req]
    /\ result' = Outcome(op, req, dir, listing)
    /\ pc' = "called"
    /\ UNCHANGED <<dir, listing, image_files, prev, since, img, out, last,
                   seen>>

\* The same entry point called on the same folder with the other spelling
CallVariant(image_extensions) ==
    LET req == [call.req EXCEPT !.image_extensions = image_extensions]
    IN  /\ pc = "called"
        /\ image_extensions \in ListVariants(call.req.image_extensions)
        /\ last' = call
        /\ prev' = result
        /\ call' = [call EXCEPT !.req = req]
        /\ result' = Outcome(call.op, req, dir, listing)
        /\ pc' = "done"
        /\ UNCHANGED <<dir, listing, image_files, since, img, out, seen>>

NextExt ==
    \/ \E f \in Names, t \in Times : AddFile(f, t, "PNG")
    \/ \E f \in Names, t \in Times : TouchFile(f, t)
    \/ \E f \in Names : DeleteFile(f)
    \/ \E op \in Operations, req \in VariantRequests : CallWith(op, req)
    \/ \E e \in ListVariants(call.req.image_extensions) : CallVariant(e)
    \/ Return

SpecExt == Init /\ [][NextExt]_vars

----------------------------------------------------------------------------
(* Calls of two callers, interleaved with each other and with folder changes *)

\* The checks of an entry point up to the emptiness check that follows the
\* enumeration: lines 63-83, 159-193 and 219-236. NoResult when the call
\* goes on to the sort.
LoadEarly(req, files) ==
    IF req.folder_path = EmptyPath \/ ~PathExists(req.folder_path)
    THEN Raised("ValueError", MsgNotFound(req.folder_path))
    ELSE IF ~PathIsDir(req.folder_path)
    THEN Raised("ValueError", MsgNotDir(req.folder_path))
    ELSE IF files = <<>> THEN Raised("ValueError", MsgNoMatch(req.folder_path))
    ELSE NoResult

IsChangedEarly(req, files) ==
    IF req.folder_path = EmptyPath \/ ~PathExists(req.folder_path)
    THEN ReturnedFloat(NaN, NoFile)
    ELSE IF files = <<>> THEN ReturnedFloat(NaN, NoFile)
    ELSE NoResult

EarlyResult(op, req, files) ==
    CASE op = "load_most_recent_image" -> LoadEarly(req, files)
      [] op = "VALIDATE_INPUTS" -> ValidateEarly(req, files)
      [] op = "IS_CHANGED" -> IsChangedEarly(req, files)

\* The rest of an entry point, from its sort on: lines 86-136, 196-211 and
\* 239-250
FromFiles(op, req, files, d) ==
    CASE op = "load_most_recent_image" -> LoadFromFiles(req, files, d)
      [] op = "VALIDATE_INPUTS" -> ValidateFromFiles(req, files, d)
      [] op = "IS_CHANGED" -> IsChangedFromFiles(req, files, d)

\* An enumeration that takes the list another call has left behind
ScanFolderCached(req) ==
    IF image_files # <<>> THEN image_files
    ELSE FindImageFiles(req.folder_path, req.image_extensions, dir, listing)

\* image_files = [] and the loop that fills it: every call builds its own
\* list from the folder as it is
ScanFolder(req) ==
    FindImageFiles(req.folder_path, req.image_extensions, dir, listing)

\* The files another process adds, touches and deletes during the calls
MixNames == {NameA, NameC}

\* The arguments of the two callers
MixRequests ==
    {Request(FolderPath, ExtP, 0), Request(FolderPath, ExtP7, 1)}

\* The first caller enters an entry point and runs it up to the sort
Enumerate(op, req) ==
    LET files == ScanFolder(req)
        early == EarlyResult(op, req, files)
    IN  /\ pc = "idle"
        /\ call' = [op |-> op, req |-> req]
        /\ seen' = [dir |-> dir, listing |-> listing]
        /\ IF early # NoResult
           THEN /\ result' = early
                /\ pc' = "done"
                /\ image_files' = <<>>
           ELSE /\ result' = NoResult
                /\ pc' = "sorting"
                /\ image_files' = files
        /\ UNCHANGED <<dir, listing, prev, since, img, out, last>>

\* The first caller's call runs from the sort to its end
SortAndSelect ==
    /\ pc \in {"sorting", "raced"}
    /\ result' = FromFiles(call.op, call.req, image_files, dir)
    /\ pc' = "done"
    /\ image_files' = <<>>
    /\ UNCHANGED <<dir, listing, call, prev, since, img, out, last, seen>>

\* A second caller makes a whole call while the first caller's is running
OtherCall(op, req) ==
    LET files == ScanFolder(req)
        early == EarlyResult(op, req, files)
    IN  /\ pc \in {"sorting", "raced"}
        /\ last = NoCall
        /\ last' = [op |-> op, req |-> req]
        /\ prev' = IF early # NoResult THEN early
                   ELSE FromFiles(op, req, files, dir)
        /\ UNCHANGED <<dir, listing, pc, call, image_files, result, since,
                       img, out, seen>>

NextMix ==
    \/ \E f \in MixNames, t \in Times : AddFile(f, t, "PNG")
    \/ \E f \in MixNames, t \in Times : TouchFile(f, t)
    \/ \E f \in MixNames : DeleteFile(f)
    \/ \E op \in Operations, req \in MixRequests : Enumerate(op, req)
    \/ SortAndSelect
    \/ \E op \in Operations, req \in MixRequests : OtherCall(op, req)
    \/ Return

SpecMix == Init /\ [][NextMix]_vars

----------------------------------------------------------------------------
(* The vocabulary of the properties *)

LoadDone == pc = "done" /\ call.op = "load_most_recent_image"
ValidateDone == pc = "done" /\ call.op = "VALIDATE_INPUTS"
IsChangedDone == pc \in {"first", "second"} /\ call.op = "IS_CHANGED"

\* The files of the folder that match the extension list: those whose name
\* ends with a normalised token or with its upper-case form. A set: each
\* file once.
MatchingFiles(req, d) ==
    LET exts == Extensions(req.image_extensions)
    IN  {f \in Names :
            /\ PathIsDir(req.folder_path)
            /\ Present(d, f)
            /\ \E i \in 1..Len(exts) :
                  FnMatch(f, exts[i]) \/ FnMatch(f, Upper(exts[i]))}

\* How many times the enumeration lists file f: once for each pattern it matches
Listings(req, d, f) ==
    LET exts == Extensions(req.image_extensions)
    IN  IF PathIsDir(req.folder_path) /\ Present(d, f)
        THEN Cardinality({i \in 1..Len(exts) : FnMatch(f, exts[i])})
             + Cardinality({i \in 1..Len(exts) : FnMatch(f, Upper(exts[i]))})
        ELSE 0

\* The number of candidates: the entries of image_files
CandidateCount(req, d) ==
    Listings(req, d, NameA) + Listings(req, d, NameB) + Listings(req, d, NameC)

DistinctMtimes(S, d) == \A f, g \in S : f # g => d[f].mtime # d[g].mtime

\* The file of S with exactly k files of S modified later than it
KthNewest(S, d, k) ==
    CHOOSE f \in S : Cardinality({g \in S : d[g].mtime > d[f].mtime}) = k

OldestMtime(S, d) == CHOOSE t \in Times :
    /\ \E f \in S : d[f].mtime = t
    /\ \A f \in S : d[f].mtime >= t

Decodes(d, f) == d[f].content \in SupportedFormats

IsOutOfRangeError(r) ==
    /\ r.kind = "raised"
    /\ r.exc = "ValueError"
    /\ r.msg.fmt = MsgOutOfRange(0, 0).fmt

----------------------------------------------------------------------------
(* C1 *)

\* C1: when the n matching files have pairwise distinct modification times
\* and 0 <= index < n, load_most_recent_image loads the matching file that
\* has exactly index matching files newer than it (each file counted once).
\* Stated for a selected file that decodes.
C1Claim ==
    LoadDone =>
        LET S == MatchingFiles(call.req, dir)
            k == call.req.index
        IN  (/\ DistinctMtimes(S, dir)
             /\ 0 <= k
             /\ k < Cardinality(S)
             /\ Decodes(dir, KthNewest(S, dir, k)))
            => result = ReturnedImage(KthNewest(S, dir, k))

----------------------------------------------------------------------------
(* C2 *)

\* C2: with n >= 1 the number of matching files, index >= n fails with the
\* index-out-of-range error, and index = n - 1 loads an oldest matching file
\* (when all matching files decode).
C2Claim ==
    LoadDone =>
        LET S == MatchingFiles(call.req, dir)
            n == Cardinality(S)
            k == call.req.index
        IN  /\ (n >= 1 /\ k >= n) => IsOutOfRangeError(result)
            /\ (n >= 1 /\ k = n - 1 /\ \A f \in S : Decodes(dir, f))
               => /\ result.kind = "returned"
                  /\ result.file \in S
                  /\ dir[result.file].mtime = OldestMtime(S, dir)

----------------------------------------------------------------------------
(* C3 *)

IsInvalidImageError(r) ==
    /\ r.kind = "raised"
    /\ r.exc = "ValueError"
    /\ r.msg.fmt = MsgLoadError(NoFile, "BAD").fmt

\* C3: load_most_recent_image reports the first failing condition in the
\* order: path missing, path not a directory, no candidate, index >= number of
\* candidates, selected file does not decode as a supported format; and a
\* call that fails returns no image. (The last clause is stated for the
\* indices the node declares, index >= 0.)
C3FailureOrder ==
    LoadDone =>
        LET req == call.req
            p == req.folder_path
            k == req.index
            count == CandidateCount(req, dir)
        IN  /\ (p = EmptyPath \/ ~PathExists(p))
               => result = Raised("ValueError", MsgNotFound(p))
            /\ (p # EmptyPath /\ PathExists(p) /\ ~PathIsDir(p))
               => result = Raised("ValueError", MsgNotDir(p))
            /\ (PathIsDir(p) /\ count = 0)
               => result = Raised("ValueError", MsgNoMatch(p))
            /\ (PathIsDir(p) /\ count > 0 /\ k >= count)
               => result = Raised("ValueError", MsgOutOfRange(k, count))
            /\ (PathIsDir(p) /\ count > 0 /\ 0 <= k /\ k < count)
               => \/ /\ IsInvalidImageError(result)
                     /\ result.msg.file \in MatchingFiles(req, dir)
                     /\ ~Decodes(dir, result.msg.file)
                  \/ /\ result.kind = "returned"
                     /\ result.file \in MatchingFiles(req, dir)
                     /\ Decodes(dir, result.file)
            /\ result.kind = "raised"
               => result.value # "image" /\ result.file = NoFile

\* Two conditions fail at once (no candidate, and so index >= the number of
\* candidates) and the earlier one is reported.
C3Witness ==
    /\ LoadDone
    /\ PathIsDir(call.req.folder_path)
    /\ CandidateCount(call.req, dir) = 0
    /\ call.req.index >= 0
    /\ \E f \in Names : Present(dir, f)
    /\ result = Raised("ValueError", MsgNoMatch(call.req.folder_path))

----------------------------------------------------------------------------
(* C4 *)

IsDiagnostic(r) == r.kind = "returned" /\ r.value = "str" /\ r.msg.fmt # ""

\* C4: on the same arguments and the same folder, VALIDATE_INPUTS returns
\* True exactly when load_most_recent_image succeeds, and a non-empty
\* diagnostic string exactly when it fails.
C4Claim ==
    ValidateDone =>
        LET loaded == LoadMostRecentImage(call.req, dir, listing)
        IN  /\ (result = ReturnedTrue) <=> (loaded.kind = "returned")
            /\ IsDiagnostic(result) <=> (loaded.kind = "raised")

----------------------------------------------------------------------------
(* C5 *)

\* The failure cause a result reports, in the taxonomy of the five causes
LoadCause(r) ==
    CASE r.kind # "raised" -> "none"
      [] r.kind = "raised" /\ r.msg.fmt = MsgNotFound("").fmt -> "missing"
      [] r.kind = "raised" /\ r.msg.fmt = MsgNotDir("").fmt -> "not a directory"
      [] r.kind = "raised" /\ r.msg.fmt = MsgNoMatch("").fmt -> "no match"
      [] r.kind = "raised" /\ r.msg.fmt = MsgOutOfRange(0, 0).fmt -> "out of range"
      [] r.kind = "raised" /\ r.msg.fmt = MsgLoadError(NoFile, "BAD").fmt -> "invalid image"
      [] OTHER -> "other"

ValidateCause(r) ==
    CASE ~IsDiagnostic(r) -> "none"
      [] IsDiagnostic(r) /\ r.msg.fmt \in {MsgEmptyPath.fmt, MsgNotFound("").fmt}
            -> "missing"
      [] IsDiagnostic(r) /\ r.msg.fmt = MsgNotDir("").fmt -> "not a directory"
      [] IsDiagnostic(r) /\ r.msg.fmt = MsgNoMatch("").fmt -> "no match"
      [] IsDiagnostic(r) /\ r.msg.fmt = MsgOutOfRange(0, 0).fmt -> "out of range"
      [] IsDiagnostic(r) /\ r.msg.fmt \in {MsgUnsupported("").fmt, MsgValidateError(0, "BAD").fmt}
            -> "invalid image"
      [] OTHER -> "other"

SharedCause(v, l) ==
    /\ ValidateCause(v) = LoadCause(l)
    /\ ValidateCause(v) \notin {"none", "other"}

\* C5 as claimed: whenever VALIDATE_INPUTS and load_most_recent_image fail for
\* the same cause, the diagnostic string is exactly the error's message.
C5Claim ==
    ValidateDone =>
        LET loaded == LoadMostRecentImage(call.req, dir, listing)
        IN  SharedCause(result, loaded) => result.msg = loaded.msg

\* C5, amended: for index >= 0 the two fail for the same cause whenever both
\* fail; the messages are equal for a missing non-empty path, a path that is
\* not a directory, no match and index out of range; they differ for the
\* empty path and for decode/format failures.
C5SameOrderAndMessages ==
    ValidateDone =>
        LET loaded == LoadMostRecentImage(call.req, dir, listing)
            cause == ValidateCause(result)
        IN  /\ (call.req.index >= 0 /\ IsDiagnostic(result) /\ loaded.kind = "raised")
               => SharedCause(result, loaded)
            /\ (/\ SharedCause(result, loaded)
                /\ cause \in {"missing", "not a directory", "no match", "out of range"}
                /\ call.req.folder_path # EmptyPath)
               => result.msg = loaded.msg
            /\ (/\ SharedCause(result, loaded)
                /\ \/ cause = "invalid image"
                   \/ call.req.folder_path = EmptyPath)
               => result.msg # loaded.msg

\* Both fail because the index is out of range, with the same message
C5Witness ==
    /\ ValidateDone
    /\ ValidateCause(result) = "out of range"
    /\ result.msg = LoadMostRecentImage(call.req, dir, listing).msg
    /\ CandidateCount(call.req, dir) > 0

----------------------------------------------------------------------------
(* C6 *)

\* C6: VALIDATE_INPUTS never raises: every call, also one during which
\* another process changes the folder between the enumeration and the sort,
\* ends by returning True or a diagnostic string.
C6Claim ==
    ValidateDone => (result = ReturnedTrue \/ IsDiagnostic(result))

----------------------------------------------------------------------------
(* C7 *)

\* The candidates modified later than time t, and no earlier than t, each
\* counted as often as the enumeration lists it
ListedNewer(req, d, t) ==
    Listings(req, d, NameA) * (IF d[NameA].mtime > t THEN 1 ELSE 0)
    + Listings(req, d, NameB) * (IF d[NameB].mtime > t THEN 1 ELSE 0)
    + Listings(req, d, NameC) * (IF d[NameC].mtime > t THEN 1 ELSE 0)

ListedNotOlder(req, d, t) ==
    Listings(req, d, NameA) * (IF d[NameA].mtime >= t THEN 1 ELSE 0)
    + Listings(req, d, NameB) * (IF d[NameB].mtime >= t THEN 1 ELSE 0)
    + Listings(req, d, NameC) * (IF d[NameC].mtime >= t THEN 1 ELSE 0)

\* t is the modification time at rank k of the candidates in descending order
IsMtimeAtRank(req, d, k, t) ==
    /\ t \in Times
    /\ ListedNewer(req, d, t) <= k
    /\ k < ListedNotOlder(req, d, t)

\* C7: IS_CHANGED never raises; it returns NaN exactly when the folder is
\* missing, no candidate matches, or the index is no valid rank (index >= the
\* number of candidates, or index < 0); otherwise it returns the modification
\* time of the candidate at rank index in descending order.
C7Claim ==
    IsChangedDone =>
        LET req == call.req
            p == req.folder_path
            k == req.index
            count == CandidateCount(req, dir)
            sentinel == \/ p = EmptyPath
                        \/ ~PathExists(p)
                        \/ count = 0
                        \/ k >= count
                        \/ k < 0
        IN  /\ result.kind = "returned"
            /\ result.value = "float"
            /\ result.tok.nan <=> sentinel
            /\ ~sentinel => IsMtimeAtRank(req, dir, k, result.tok.t)

----------------------------------------------------------------------------
(* C8 *)

SecondDone == pc = "second" /\ call.op = "IS_CHANGED"

\* The step between the two calls changed the modification time of the file
\* the first call selected
TouchedSelected == since.kind = "touch" /\ since.file = prev.file

\* The step between the two calls added a matching file newer than the file
\* the first call selected, and the second call selects a different file
AddedNewerShift ==
    /\ since.kind = "add"
    /\ since.file \in MatchingFiles(call.req, dir)
    /\ prev.file # NoFile
    /\ dir[since.file].mtime > prev.tok.t
    /\ result.file # prev.file

\* C8 as claimed: with no modification in between, two successive IS_CHANGED
\* calls return values that compare equal; after a step that changes the
\* selected file's modification time, or adds a newer matching file so that
\* another file is at rank index, the values compare unequal.
C8Claim ==
    SecondDone =>
        /\ since.kind = "none" => FloatEq(prev.tok, result.tok)
        /\ (TouchedSelected \/ AddedNewerShift) => ~FloatEq(prev.tok, result.tok)

\* The matching files have pairwise distinct modification times now, and had
\* before the step between the two calls (before a touch the touched file had
\* the modification time the first call returned).
DistinctAroundStep ==
    LET S == MatchingFiles(call.req, dir)
    IN  /\ DistinctMtimes(S, dir)
        /\ since.kind = "touch"
           => \A g \in S \ {since.file} : dir[g].mtime # prev.tok.t

\* No file is at the requested position: the folder is missing, no candidate
\* matches, or the index is beyond either end of the candidate list
NothingSelected(req, d) ==
    \/ req.folder_path = EmptyPath
    \/ ~PathExists(req.folder_path)
    \/ CandidateCount(req, d) = 0
    \/ req.index >= CandidateCount(req, d)
    \/ req.index < 0 - CandidateCount(req, d)

\* C8, amended: with no modification in between, two successive IS_CHANGED
\* calls return values that compare equal when a file is selected, and both
\* return NaN, which compares unequal to itself, when none is; when the
\* matching files have pairwise distinct modification times before and after
\* the step, the values compare unequal after a step that changes the selected
\* file's modification time or adds a newer matching file so that another file
\* is at rank index.
C8TokenComparison ==
    SecondDone =>
        /\ since.kind = "none"
           => /\ FloatEq(prev.tok, result.tok) <=> ~NothingSelected(call.req, dir)
              /\ NothingSelected(call.req, dir) => prev.tok.nan /\ result.tok.nan
        /\ ((TouchedSelected \/ AddedNewerShift) /\ DistinctAroundStep)
           => ~FloatEq(prev.tok, result.tok)

\* A newer file was added between the two calls, another file is at the rank
\* now, and both calls returned timestamps
C8Witness ==
    /\ SecondDone
    /\ AddedNewerShift
    /\ DistinctAroundStep
    /\ ~prev.tok.nan
    /\ ~result.tok.nan
    /\ Cardinality(MatchingFiles(call.req, dir)) = Cardinality(Names)

----------------------------------------------------------------------------
(* C9 *)

Decoded == pc = "decoded"

Rows(image) == 1..image.height
Columns(image) == 1..image.width

\* The alpha sample of a pixel of the source image: its fourth band, or for
\* an image with a transparency marker the alpha its promotion to RGBA gives
AlphaSample(image, y, x) ==
    IF image.mode = "RGBA" THEN image.data[y][x][4]
    ELSE ConvertRGBA(image).data[y][x][4]

\* C9: for a source image that is RGBA or carries a transparency marker, each
\* pixel of the mask is 1 - alpha/255 for that pixel's alpha sample, and each
\* pixel of the returned image has exactly the three RGB channels.
C9MaskInversion ==
    (Decoded /\ (img.mode = "RGBA" \/ HasTransparency(img))) =>
        \A y \in Rows(img), x \in Columns(img) :
            LET alpha == AlphaSample(img, y, x)
                m == out.mask[1][y][x]
                px == out.image[1][y][x]
            IN  /\ alpha \in 0..MaxSample
                /\ m.num * MaxSample = (MaxSample - alpha) * m.den
                /\ alpha = MaxSample => RatEq(m, Rat(0, 1))
                /\ alpha = 0 => RatEq(m, Rat(1, 1))
                /\ Len(px) = 3
                /\ \A b \in 1..3 :
                      px[b].num * MaxSample
                         = PixelRGB(img, img.data[y][x])[b] * px[b].den

\* A palette image with alpha bytes was promoted and decoded, with pixels of
\* alpha 0, 128 and 255 (the last from the palette entry beyond the bytes)
C9Witness ==
    /\ Decoded
    /\ img.mode = "P"
    /\ img.transparency.kind = "bytes"
    /\ img.width = 2
    /\ AlphaSample(img, 1, 1) = 128
    /\ AlphaSample(img, 1, 2) = MaxSample

----------------------------------------------------------------------------
(* C10 *)

FullyTransparent(image) ==
    /\ image.mode = "RGBA"
    /\ \A y \in Rows(image), x \in Columns(image) : image.data[y][x][4] = 0

\* C10 as claimed: for an image whose alpha channel is 0 at every pixel the
\* mask is uniformly 0.0.
C10Claim ==
    (Decoded /\ FullyTransparent(img)) =>
        \A y \in Rows(img), x \in Columns(img) :
            RatEq(out.mask[1][y][x], Rat(0, 1))

\* C10, amended: for an image whose alpha channel is 0 at every pixel the
\* mask is uniformly 1.0.
C10MaskOfTransparent ==
    (Decoded /\ FullyTransparent(img)) =>
        \A y \in Rows(img), x \in Columns(img) :
            RatEq(out.mask[1][y][x], Rat(1, 1))

C10Witness ==
    /\ Decoded
    /\ FullyTransparent(img)
    /\ img.width = 2
    /\ out.mask # <<>>

----------------------------------------------------------------------------
(* C11 *)

\* The shape of an array: a batch of one, height rows, width columns
IsBatchOfOne(a, height, width) ==
    /\ Len(a) = 1
    /\ Len(a[1]) = height
    /\ \A y \in 1..height : Len(a[1][y]) = width

Opaque(image) == image.mode # "RGBA" /\ ~HasTransparency(image)

\* C11: on every successful decode the image has shape 1 x H x W x 3 and the
\* mask shape 1 x H x W, with H and W the height and width of the source
\* image; and for a source image that is neither RGBA nor carries a
\* transparency marker every pixel of the mask is 1.0.
C11MaskShape ==
    Decoded =>
        /\ IsBatchOfOne(out.image, img.height, img.width)
        /\ IsBatchOfOne(out.mask, img.height, img.width)
        /\ \A y \in Rows(img), x \in Columns(img) : Len(out.image[1][y][x]) = 3
        /\ Opaque(img) =>
              \A y \in Rows(img), x \in Columns(img) :
                  RatEq(out.mask[1][y][x], Rat(1, 1))

\* An opaque RGB image wider than high was decoded, and so was its mask
C11Witness ==
    /\ Decoded
    /\ img.mode = "RGB"
    /\ Opaque(img)
    /\ img.width = MaxWidth
    /\ img.width # img.height
    /\ Len(out.mask[1][1]) = MaxWidth

----------------------------------------------------------------------------
(* C12 *)

VariantDone == pc = "done" /\ last # NoCall

\* C12: each token of the extension list is trimmed, lower-cased and given a
\* leading '.' if it has none, so a call of any of the three entry points
\* gives the same outcome (the same file, the same error, the same token) as
\* the call on the same folder with one token replaced by a spelling that
\* differs in letter case, surrounding whitespace or the leading '.'.
C12SameOutcome ==
    VariantDone =>
        /\ call.req.image_extensions # last.req.image_extensions
        /\ Extensions(call.req.image_extensions)
              = Extensions(last.req.image_extensions)
        /\ \A i \in 1..Len(Extensions(call.req.image_extensions)) :
              LET ext == Extensions(call.req.image_extensions)[i]
                  token == Split(call.req.image_extensions)[i]
              IN  /\ Head(ext) = "."
                  /\ ext = Lower(ext)
                  /\ Tail(ext) = Lower(Word(token))
        /\ result = prev

\* "p,7" was followed by " .P\t,7", a spelling of the first token that
\* differs in all three ways, and both calls loaded the file a.p
C12Witness ==
    /\ VariantDone
    /\ call.op = "load_most_recent_image"
    /\ last.req.image_extensions = ExtP7
    /\ call.req.image_extensions = <<" ", ".", "P", "\t", ",", "7">>
    /\ result.kind = "returned"
    /\ result.file = NameA
    /\ Present(dir, NameC)

----------------------------------------------------------------------------
(* C13 *)

\* What a call must give when nothing but its arguments, the folder its
\* enumeration found and the folder its sort and decode found decide it
ExpectedResult(op, req, found, d) ==
    LET files == FindImageFiles(req.folder_path, req.image_extensions,
                                found.dir, found.listing)
        early == EarlyResult(op, req, files)
    IN  IF early # NoResult THEN early ELSE FromFiles(op, req, files, d)

\* A step in which the folder changes is not a step of a call
OnlyFolderChanges ==
    (dir' # dir \/ listing' # listing) =>
        /\ call' = call
        /\ result' = result
        /\ image_files' = image_files
        /\ prev' = prev
        /\ last' = last

\* The first caller's call ends with the result its arguments and the
\* folder during the call decide
FirstCallerDecided ==
    (pc # "done" /\ pc' = "done") =>
        result' = ExpectedResult(call'.op, call'.req, seen', dir')

\* The second caller's call gives what an undisturbed call gives
SecondCallerDecided ==
    (last' # last /\ last' # NoCall) =>
        prev' = Outcome(last'.op, last'.req, dir', listing')

\* C13: in every interleaving of the calls of two callers with additions,
\* touches and deletions of files, the result of a call is decided by its
\* own arguments and the folder as it was during that call, not by a call
\* made before it or running beside it, and no step of a call changes the
\* folder.
C13Independent ==
    [][OnlyFolderChanges /\ FirstCallerDecided /\ SecondCallerDecided]_vars

\* A load of the second newest of "p,7" ended after the folder changed under
\* it and after another caller's IS_CHANGED for "p" returned a timestamp
C13Witness ==
    /\ pc = "done"
    /\ call.op = "load_most_recent_image"
    /\ call.req.image_extensions = ExtP7
    /\ last.op = "IS_CHANGED"
    /\ last.req.image_extensions = ExtP
    /\ seen.dir # dir
    /\ result.kind = "returned"
    /\ ~prev.tok.nan

====
